---- MODULE Spec2Model ----
(***************************************************************************)
(* certspotter-authorize: certificate fingerprinting and the .notified     *)
(* marker store (cmd/certspotter-authorize/main.go).                       *)
(*                                                                         *)
(* Each process of Procs is one invocation.  Under Spec an invocation is   *)
(* a run of main(): read and decode the input, hash the TBSCertificate,    *)
(* create the marker, exit.  Under SpecStore an invocation is a direct     *)
(* call of createNotifiedMarker with an arbitrary 32-byte fingerprint, as  *)
(* the unit tests make it.  All invocations share one filesystem and are   *)
(* given the same state directory; their filesystem steps interleave.      *)
(***************************************************************************)
EXTENDS Integers, Sequences, FiniteSets, TLC

\* Number of concurrent invocations.
NumProcs == 2

Procs == 1..NumProcs

\* Length of a SHA-256 digest ([32]byte).
Size == 32

VARIABLES
    stateDir,      \* flags.stateDir, the same for every invocation
    fs,            \* the filesystem: path -> entry, for the paths that exist
    pc,            \* position of each invocation
    input,         \* name of the -cert input of each invocation
    certDER,       \* main: result of parseCertificate
    tbsHash,       \* the fingerprint handed to createNotifiedMarker
    tbsDir,        \* createNotifiedMarker: local tbsDir
    notifiedPath,  \* createNotifiedMarker: local notifiedPath
    mk,            \* os.MkdirAll: index of the path component being made
    ret,           \* what createNotifiedMarker returned: [path, err]
    exit,          \* exit status of main, -1 while running
    stderr,        \* the error main printed, NoError if none
    fs0,           \* history: the filesystem before any invocation started
    writes,        \* history: path -> number of times the path was opened
                   \*          for writing (O_WRONLY|O_CREATE|O_TRUNC)
    seen,          \* history: invocations with the same fingerprint that had
                   \*          returned when this one performed its existence check
    writers        \* history: invocations that have called os.WriteFile

vars == <<stateDir, fs, pc, input, certDER, tbsHash, tbsDir, notifiedPath,
          mk, ret, exit, stderr, fs0, writes, seen, writers>>

NoError == [kind |-> "nil"]

PathError(op, path, cause) ==
    [kind |-> "PathError", op |-> op, path |-> path, cause |-> cause]

\* fmt.Errorf(msg + ": %w", err)
Wrap(msg, err) == [kind |-> "wrapped", msg |-> msg, err |-> err]

(***************************************************************************)
(* encoding/hex and path/filepath as createNotifiedMarker uses them.       *)
(***************************************************************************)

\* Mutation: an uppercase digit table.
hextableUpper ==
    <<"0", "1", "2", "3", "4", "5", "6", "7",
      "8", "9", "A", "B", "C", "D", "E", "F">>

\* hex.EncodeToString's table "0123456789abcdef".
hextable ==
    <<"0", "1", "2", "3", "4", "5", "6", "7",
      "8", "9", "a", "b", "c", "d", "e", "f">>

\* hex.EncodeToString: two characters per byte, high nibble first.  The
\* result is kept as a sequence of characters so that it can be sliced.
RECURSIVE EncodeToString(_)
EncodeToString(src) ==
    IF src = <<>> THEN <<>>
    ELSE <<hextable[(src[1] \div 16) + 1], hextable[(src[1] % 16) + 1]>>
         \o EncodeToString(Tail(src))

\* A sequence of characters as a string.
RECURSIVE Str(_)
Str(chars) ==
    IF chars = <<>> THEN "" ELSE chars[1] \o Str(Tail(chars))

\* filepath.Join: empty elements are ignored, the rest joined by "/".
RECURSIVE Join(_)
Join(elems) ==
    IF elems = <<>> THEN ""
    ELSE IF elems[1] = "" THEN Join(Tail(elems))
    ELSE LET rest == Join(Tail(elems))
         IN  IF rest = "" THEN elems[1] ELSE elems[1] \o "/" \o rest

\* tbsDir := filepath.Join(stateDir, "certs", tbsHex[0:2])
ShardLen == 2

TbsDir(sd, tbsHex) == Join(<<sd, "certs", Str(SubSeq(tbsHex, 1, ShardLen))>>)

\* notifiedPath := filepath.Join(tbsDir, "."+tbsHex+".notified")
NotifiedPath(dir, tbsHex) == Join(<<dir, "." \o Str(tbsHex) \o ".notified">>)

TbsDirOf(sd, hash) == TbsDir(sd, EncodeToString(hash))

NotifiedPathOf(sd, hash) ==
    LET tbsHex == EncodeToString(hash)
    IN  NotifiedPath(TbsDir(sd, tbsHex), tbsHex)

(***************************************************************************)
(* encoding/pem and encoding/base64 as parseCertificate uses them.  Inputs *)
(* are byte strings: sequences of numbers in 0..255.                       *)
(***************************************************************************)

HasPrefix(s, prefix) ==
    Len(s) >= Len(prefix) /\ SubSeq(s, 1, Len(prefix)) = prefix

HasSuffix(s, suffix) ==
    Len(s) >= Len(suffix) /\ SubSeq(s, Len(s) - Len(suffix) + 1, Len(s)) = suffix

\* s[n:]
From(s, n) == SubSeq(s, n + 1, Len(s))

\* bytes.Index: 0-based offset of the first occurrence of sep in s, or -1.
RECURSIVE IndexFrom(_, _, _)
IndexFrom(s, sep, i) ==
    IF i + Len(sep) > Len(s) THEN -1
    ELSE IF s[i + 1] = sep[1] /\ SubSeq(s, i + 1, i + Len(sep)) = sep THEN i
    ELSE IndexFrom(s, sep, i + 1)

Index(s, sep) == IndexFrom(s, sep, 0)

\* "\n-----BEGIN ", "\n-----END ", "-----"
pemStart == <<10, 45, 45, 45, 45, 45, 66, 69, 71, 73, 78, 32>>
pemEnd == <<10, 45, 45, 45, 45, 45, 69, 78, 68, 32>>
pemEndOfLine == <<45, 45, 45, 45, 45>>

\* bytes.TrimRight(s, " \t")
RECURSIVE TrimRight(_)
TrimRight(s) ==
    IF s # <<>> /\ s[Len(s)] \in {32, 9} THEN TrimRight(SubSeq(s, 1, Len(s) - 1)) ELSE s

\* pem.getLine: the first line without trailing blanks and line ending, and
\* what follows it.
getLine(data) ==
    LET i == Index(data, <<10>>)
        j == IF i < 0 THEN Len(data) ELSE i + 1
        e == IF i < 0 THEN Len(data)
             ELSE IF i > 0 /\ data[i] = 13 THEN i - 1 ELSE i
    IN  [line |-> TrimRight(SubSeq(data, 1, e)), rest |-> From(data, j)]

\* The value of a character of the standard base64 alphabet, -1 otherwise.
B64Value(c) ==
    CASE c \in 65..90  -> c - 65
      [] c \in 97..122 -> c - 97 + 26
      [] c \in 48..57  -> c - 48 + 52
      [] c = 43        -> 62
      [] c = 47        -> 63
      [] OTHER         -> -1

B64Char(v) ==
    CASE v \in 0..25  -> v + 65
      [] v \in 26..51 -> v - 26 + 97
      [] v \in 52..61 -> v - 52 + 48
      [] v = 62       -> 43
      [] OTHER        -> 47

Strip(s, drop) == SelectSeq(s, LAMBDA c : c \notin drop)

\* base64.StdEncoding.Decode of text already freed of line breaks: groups of
\* four characters, "=" padding only at the very end.
RECURSIVE B64Groups(_)
B64Groups(s) ==
    IF s = <<>> THEN [ok |-> TRUE, bytes |-> <<>>]
    ELSE IF Len(s) < 4 THEN [ok |-> FALSE, bytes |-> <<>>]
    ELSE LET a == B64Value(s[1])
             b == B64Value(s[2])
             c == B64Value(s[3])
             d == B64Value(s[4])
             last == Len(s) = 4
             n == a * 262144 + b * 4096
                  + (IF c < 0 THEN 0 ELSE c) * 64 + (IF d < 0 THEN 0 ELSE d)
             b1 == n \div 65536
             b2 == (n \div 256) % 256
             b3 == n % 256
             rest == B64Groups(From(s, 4))
         IN  IF a < 0 \/ b < 0 THEN [ok |-> FALSE, bytes |-> <<>>]
             ELSE IF last /\ s[3] = 61 /\ s[4] = 61
                  THEN [ok |-> TRUE, bytes |-> <<b1>>]
             ELSE IF last /\ c >= 0 /\ s[4] = 61
                  THEN [ok |-> TRUE, bytes |-> <<b1, b2>>]
             ELSE IF c < 0 \/ d < 0 \/ ~rest.ok THEN [ok |-> FALSE, bytes |-> <<>>]
             ELSE [ok |-> TRUE, bytes |-> <<b1, b2, b3>> \o rest.bytes]

B64Decode(s) == B64Groups(Strip(s, {10, 13}))

\* base64.StdEncoding.Encode
RECURSIVE B64Encode(_)
B64Encode(src) ==
    IF src = <<>> THEN <<>>
    ELSE LET k == IF Len(src) >= 3 THEN 3 ELSE Len(src)
             n == src[1] * 65536 + (IF k >= 2 THEN src[2] ELSE 0) * 256
                  + (IF k = 3 THEN src[3] ELSE 0)
         IN  <<B64Char(n \div 262144), B64Char((n \div 4096) % 64),
               IF k >= 2 THEN B64Char((n \div 64) % 64) ELSE 61,
               IF k = 3 THEN B64Char(n % 64) ELSE 61>>
             \o B64Encode(From(src, k))

NoBlock == [found |-> FALSE, Type |-> <<>>, Bytes |-> <<>>]

\* pem.Decode: the first well-formed block of data, NoBlock if there is none.
\* A candidate that turns out malformed is skipped and the search resumes
\* after its BEGIN line ("continue").  Header lines ("key: value") do not
\* occur in the inputs of this model and the header loop is not modelled.
RECURSIVE Decode(_)
Decode(data) ==
    LET found == Index(data, pemStart)
        start == IF HasPrefix(data, Tail(pemStart)) THEN Len(pemStart) - 1
                 ELSE IF found >= 0 THEN found + Len(pemStart)
                 ELSE -1
    IN  IF start < 0 THEN NoBlock
        ELSE
        LET first     == getLine(From(data, start))
            rest      == first.rest
            typeLine  == SubSeq(first.line, 1, Len(first.line) - Len(pemEndOfLine))
            immediate == HasPrefix(rest, Tail(pemEnd))
            endIndex  == IF immediate THEN 0 ELSE Index(rest, pemEnd)
            endTrailerIndex ==
                IF immediate THEN Len(pemEnd) - 1 ELSE endIndex + Len(pemEnd)
            endTrailer    == From(rest, endTrailerIndex)
            endTrailerLen == Len(typeLine) + Len(pemEndOfLine)
            restOfEndLine == From(endTrailer, endTrailerLen)
            trailer       == SubSeq(endTrailer, 1, endTrailerLen)
            body == B64Decode(Strip(SubSeq(rest, 1, endIndex), {32, 9}))
        IN  IF ~HasSuffix(first.line, pemEndOfLine) THEN Decode(rest)
            ELSE IF rest = <<>> THEN NoBlock
            ELSE IF endIndex < 0 THEN Decode(rest)
            ELSE IF Len(endTrailer) < endTrailerLen THEN Decode(rest)
            ELSE IF ~HasPrefix(trailer, typeLine) \/ ~HasSuffix(trailer, pemEndOfLine)
                 THEN Decode(rest)
            ELSE IF getLine(restOfEndLine).line # <<>> THEN Decode(rest)
            ELSE IF ~body.ok THEN Decode(rest)
            ELSE [found |-> TRUE, Type |-> typeLine, Bytes |-> body.bytes]

\* "CERTIFICATE"
Certificate == <<67, 69, 82, 84, 73, 70, 73, 67, 65, 84, 69>>

\* Mutation: the input returned in place of the decoded block.
parseCertificateRaw(certBytes) ==
    LET block == Decode(certBytes)
    IN  IF block.found /\ block.Type # Certificate
        THEN [der |-> <<>>,
              err |-> [kind |-> "InvalidInputKind", label |-> block.Type]]
        ELSE [der |-> certBytes, err |-> NoError]

\* Mutation: a block of another type falls through to the DER case.
parseCertificateLenient(certBytes) ==
    LET block == Decode(certBytes)
    IN  IF block.found /\ block.Type = Certificate
        THEN [der |-> block.Bytes, err |-> NoError]
        ELSE [der |-> certBytes, err |-> NoError]

\* parseCertificate
parseCertificate(certBytes) ==
    LET block == Decode(certBytes)
    IN  IF block.found
        THEN IF block.Type = Certificate
             THEN [der |-> block.Bytes, err |-> NoError]
             ELSE [der |-> <<>>,
                   err |-> [kind |-> "InvalidInputKind", label |-> block.Type]]
        ELSE [der |-> certBytes, err |-> NoError]

(***************************************************************************)
(* computeTBSHash.  certspotter.MakeCertInfoFromRawCert and crypto/sha256  *)
(* are outside this program's file; they are modelled by their contracts.  *)
(***************************************************************************)

\* One DER element with a short-form length starting at offset off (1-based):
\* its tag and the offset of its last byte, or ok = FALSE if it does not fit.
Element(der, off) ==
    IF off + 1 > Len(der) \/ der[off + 1] >= 128 \/ off + 1 + der[off + 1] > Len(der)
    THEN [ok |-> FALSE, tag |-> 0, end |-> 0]
    ELSE [ok |-> TRUE, tag |-> der[off], end |-> off + 1 + der[off + 1]]

\* Certificate ::= SEQUENCE { tbsCertificate SEQUENCE, signatureAlgorithm
\* SEQUENCE, signatureValue BIT STRING }.  TBS.Raw is the tbsCertificate
\* element with its tag and length.
MakeCertInfoFromRawCert(der) ==
    LET outer == Element(der, 1)
        tbs   == Element(der, 3)
        alg   == Element(der, tbs.end + 1)
        sig   == Element(der, alg.end + 1)
    IN  IF /\ outer.ok /\ outer.tag = 48 /\ outer.end = Len(der)
           /\ tbs.ok /\ tbs.tag = 48
           /\ alg.ok /\ alg.tag = 48
           /\ sig.ok /\ sig.tag = 3 /\ sig.end = Len(der)
        THEN [ok |-> TRUE, TBS |-> [Raw |-> SubSeq(der, 3, tbs.end)]]
        ELSE [ok |-> FALSE, TBS |-> [Raw |-> <<>>]]

\* A stand-in for SHA-256 with the same signature: a deterministic digest of
\* Size bytes that depends on every byte of the message and on its length.
RECURSIVE Absorb(_, _)
Absorb(h, msg) ==
    IF msg = <<>> THEN h
    ELSE Absorb((h * 31 + msg[1] + 1) % 65521, Tail(msg))

Sum256(msg) ==
    LET h == Absorb(Len(msg) + 7, msg)
    IN  [i \in 1..Size |-> ((h + i) * (2 * i + 1) + (h \div 256)) % 256]

\* Mutation: the digest taken over the whole certificate.
computeTBSHashWhole(der) ==
    IF ~MakeCertInfoFromRawCert(der).ok
    THEN [hash |-> [i \in 1..Size |-> 0],
          err |-> Wrap("error parsing certificate", [kind |-> "CertificateParseError"])]
    ELSE [hash |-> Sum256(der), err |-> NoError]

\* computeTBSHash
computeTBSHash(der) ==
    LET certInfo == MakeCertInfoFromRawCert(der)
    IN  IF ~certInfo.ok
        THEN [hash |-> [i \in 1..Size |-> 0],
              err |-> Wrap("error parsing certificate", [kind |-> "CertificateParseError"])]
        ELSE [hash |-> Sum256(certInfo.TBS.Raw), err |-> NoError]

(***************************************************************************)
(* The filesystem.                                                         *)
(***************************************************************************)

Dir(writable) == [kind |-> "dir", size |-> 0, writable |-> writable, target |-> ""]
File(n)       == [kind |-> "file", size |-> n, writable |-> TRUE, target |-> ""]
Symlink(to)   == [kind |-> "symlink", size |-> 0, writable |-> TRUE, target |-> to]

Exists(f, path) == path \in DOMAIN f

\* os.Stat: follows one symbolic link; "absent" if nothing is there.
StatKind(f, path) ==
    IF ~Exists(f, path) THEN "absent"
    ELSE IF f[path].kind = "symlink"
         THEN IF Exists(f, f[path].target) THEN f[f[path].target].kind ELSE "absent"
         ELSE f[path].kind

\* Mutation: the existence check removed.
fileExistsNever(f, path) == FALSE

\* Mutation: os.Stat in place of os.Lstat, so that symbolic links are followed.
fileExistsStat(f, path) == StatKind(f, path) # "absent"

\* fileExists: os.Lstat succeeds, whatever the entry is.  Lstat fails when the
\* entry is absent or when a component of the path is not a directory.
fileExists(f, path) == Exists(f, path)

Put(f, path, entry) ==
    [x \in DOMAIN f \cup {path} |-> IF x = path THEN entry ELSE f[x]]

\* The directories os.MkdirAll(dir) walks for a shard directory dir of the
\* state directory sd, outermost first.
Ancestors(sd, dir) == <<Join(<<sd>>), Join(<<sd, "certs">>), dir>>

\* The parent of the outermost directory (the directory the state directory
\* lives in) exists and is writable.
ParentWritable(f, dirs, i) ==
    IF i = 1 THEN TRUE
    ELSE StatKind(f, dirs[i - 1]) = "dir" /\ Exists(f, dirs[i - 1]) /\ f[dirs[i - 1]].writable

(***************************************************************************)
(* createNotifiedMarker.                                                   *)
(***************************************************************************)

Returned(p, path, err) ==
    /\ ret' = [ret EXCEPT ![p] = [path |-> path, err |-> err]]
    /\ pc' = [pc EXCEPT ![p] = "returned"]

\* Lines 104-115: derive the paths, then the existence check.
CheckNotified(p) ==
    /\ pc[p] = "check"
    /\ LET tbsHex == EncodeToString(tbsHash[p])
           dir    == TbsDir(stateDir, tbsHex)
           path   == NotifiedPath(dir, tbsHex)
       IN  /\ tbsDir' = [tbsDir EXCEPT ![p] = dir]
           /\ notifiedPath' = [notifiedPath EXCEPT ![p] = path]
           /\ seen' = [seen EXCEPT ![p] =
                           {q \in Procs : /\ pc[q] \in {"returned", "exited"}
                                          /\ tbsHash[q] = tbsHash[p]}]
           /\ IF fileExists(fs, path)
              THEN Returned(p, path, NoError)
              ELSE /\ pc' = [pc EXCEPT ![p] = "mkdir"]
                   /\ ret' = ret
    /\ UNCHANGED <<stateDir, fs, input, certDER, tbsHash, mk, exit, stderr, fs0,
                   writes, writers>>

\* Lines 117-120: os.MkdirAll(tbsDir, 0777), one system call per step.
\* mk = 0 is the initial Stat of the whole path; mk = i makes component i.
MkdirAllStep(p) ==
    /\ pc[p] = "mkdir"
    /\ LET dirs == Ancestors(stateDir, tbsDir[p])
           i    == mk[p]
           Depth == Len(dirs)
           fail(path, cause) ==
               /\ Returned(p, "", Wrap("error creating directory", PathError("mkdir", path, cause)))
               /\ UNCHANGED <<fs, mk>>
           next ==
               IF i = Depth
               THEN /\ pc' = [pc EXCEPT ![p] = "write"]
                    /\ ret' = ret
                    /\ mk' = mk
               ELSE /\ mk' = [mk EXCEPT ![p] = i + 1]
                    /\ UNCHANGED <<pc, ret>>
       IN  IF i = 0
           THEN CASE StatKind(fs, dirs[Depth]) = "dir" ->
                        /\ pc' = [pc EXCEPT ![p] = "write"]
                        /\ UNCHANGED <<fs, mk, ret>>
                  [] StatKind(fs, dirs[Depth]) = "absent" ->
                        /\ mk' = [mk EXCEPT ![p] = 1]
                        /\ UNCHANGED <<fs, pc, ret>>
                  [] OTHER -> fail(dirs[Depth], "ENOTDIR")
           ELSE CASE StatKind(fs, dirs[i]) = "dir" ->
                        /\ next
                        /\ fs' = fs
                  [] StatKind(fs, dirs[i]) = "absent" /\ ~Exists(fs, dirs[i]) ->
                        IF ParentWritable(fs, dirs, i)
                        THEN /\ fs' = Put(fs, dirs[i], Dir(TRUE))
                             /\ next
                        ELSE fail(dirs[i], "EACCES")
                  [] StatKind(fs, dirs[i]) = "absent" /\ Exists(fs, dirs[i]) ->
                        fail(dirs[i], "EEXIST")
                  [] OTHER -> fail(dirs[i], "ENOTDIR")
    /\ UNCHANGED <<stateDir, input, certDER, tbsHash, tbsDir, notifiedPath,
                   exit, stderr, fs0, writes, seen, writers>>

\* Mutation: an exclusive create (O_EXCL) that reports an existing file.
WriteOutcomeExcl(f, dir, path) ==
    IF Exists(f, path) THEN [err |-> "EEXIST", at |-> ""]
    ELSE IF StatKind(f, dir) # "dir" THEN [err |-> "ENOENT", at |-> ""]
    ELSE IF ~f[dir].writable THEN [err |-> "EACCES", at |-> ""]
    ELSE [err |-> "", at |-> path]

\* Lines 122-127: os.WriteFile(notifiedPath, nil, 0666), that is
\* OpenFile(O_WRONLY|O_CREATE|O_TRUNC), a write of no bytes, Close.
WriteOutcome(f, dir, path) ==
    IF ~Exists(f, path)
    THEN CASE StatKind(f, dir) = "absent" -> [err |-> "ENOENT", at |-> ""]
           [] StatKind(f, dir) # "dir"    -> [err |-> "ENOTDIR", at |-> ""]
           [] ~f[dir].writable            -> [err |-> "EACCES", at |-> ""]
           [] OTHER                       -> [err |-> "", at |-> path]
    ELSE CASE f[path].kind = "dir"        -> [err |-> "EISDIR", at |-> ""]
           [] f[path].kind = "symlink"    ->
                  IF StatKind(f, f[path].target) = "dir"
                  THEN [err |-> "EISDIR", at |-> ""]
                  ELSE [err |-> "", at |-> f[path].target]
           [] ~f[path].writable           -> [err |-> "EACCES", at |-> ""]
           [] OTHER                       -> [err |-> "", at |-> path]

WriteMarker(p) ==
    /\ pc[p] = "write"
    /\ writers' = writers \cup {p}
    /\ LET out == WriteOutcome(fs, tbsDir[p], notifiedPath[p])
       IN  IF out.err = ""
           THEN /\ fs' = Put(fs, out.at, File(0))
                /\ writes' = [x \in DOMAIN writes \cup {out.at} |->
                                 IF x = out.at
                                 THEN (IF x \in DOMAIN writes THEN writes[x] ELSE 0) + 1
                                 ELSE writes[x]]
                /\ Returned(p, notifiedPath[p], NoError)
           ELSE /\ Returned(p, "", Wrap("error creating marker file",
                                        PathError("open", notifiedPath[p], out.err)))
                /\ UNCHANGED <<fs, writes>>
    /\ UNCHANGED <<stateDir, input, certDER, tbsHash, tbsDir, notifiedPath,
                   mk, exit, stderr, fs0, seen>>

(***************************************************************************)
(* Initial filesystems.                                                    *)
(***************************************************************************)

StateDirs == {"/var/lib/certspotter", "state"}

\* A 32-byte fingerprint with the given first and last byte.
Fp(first, last) ==
    [i \in 1..Size |-> IF i = 1 THEN first ELSE IF i = Size THEN last ELSE 171]

\* Fingerprints starting with 00 and ff, one with a leading zero nibble, and
\* two different ones sharing the shard "ab".
Fingerprints == {Fp(0, 1), Fp(255, 1), Fp(10, 1), Fp(171, 1), Fp(171, 2)}

\* Invocations are interchangeable: only one order of each combination of
\* arguments is started.
Ordered(keys) == \A p, q \in Procs : p < q => keys[p] <= keys[q]

FpKey(hash) == hash[1] * 256 + hash[Size]

Scenarios ==
    {"fresh", "populated", "sharded", "marked_file", "marked_dangling",
     "marked_symlink", "marked_dir", "certs_is_file", "certs_readonly",
     "shard_readonly"}

Elsewhere(sd) == Join(<<sd, "elsewhere">>)

\* The filesystem of a scenario, for state directory sd, the fingerprints
\* hashes in use, and the fingerprint first whose marker path is occupied in
\* the "marked_*" scenarios.
InitialFS(scenario, sd, hashes, first) ==
    LET root   == Join(<<sd>>)
        certs  == Join(<<sd, "certs">>)
        shards == {TbsDirOf(sd, h) : h \in hashes}
        marker == NotifiedPathOf(sd, first)
        tree(paths, certsEntry, shardEntry, markerEntry) ==
            [x \in paths |->
                IF x = root THEN Dir(TRUE)
                ELSE IF x = certs THEN certsEntry
                ELSE IF x \in shards THEN shardEntry
                ELSE IF x = marker THEN markerEntry
                ELSE File(3)]
    IN  CASE scenario = "fresh"           -> [x \in {} |-> File(0)]
          [] scenario = "populated"       -> tree({root, certs}, Dir(TRUE), Dir(TRUE), File(0))
          [] scenario = "sharded"         -> tree({root, certs} \cup shards, Dir(TRUE), Dir(TRUE), File(0))
          [] scenario = "marked_file"     -> tree({root, certs, marker} \cup shards, Dir(TRUE), Dir(TRUE), File(0))
          [] scenario = "marked_dangling" -> tree({root, certs, marker} \cup shards, Dir(TRUE), Dir(TRUE), Symlink(Elsewhere(sd)))
          [] scenario = "marked_symlink"  -> tree({root, certs, marker, Elsewhere(sd)} \cup shards, Dir(TRUE), Dir(TRUE), Symlink(Elsewhere(sd)))
          [] scenario = "marked_dir"      -> tree({root, certs, marker} \cup shards, Dir(TRUE), Dir(TRUE), Dir(TRUE))
          [] scenario = "certs_is_file"   -> tree({root, certs}, File(0), Dir(TRUE), File(0))
          [] scenario = "certs_readonly"  -> tree({root, certs}, Dir(FALSE), Dir(TRUE), File(0))
          [] scenario = "shard_readonly"  -> tree({root, certs} \cup shards, Dir(TRUE), Dir(FALSE), File(0))

NoPath == [p \in Procs |-> ""]

InitLocals ==
    /\ tbsDir = NoPath
    /\ notifiedPath = NoPath
    /\ mk = [p \in Procs |-> 0]
    /\ ret = [p \in Procs |-> [path |-> "", err |-> NoError]]
    /\ exit = [p \in Procs |-> -1]
    /\ stderr = [p \in Procs |-> NoError]
    /\ writes = [x \in {} |-> 0]
    /\ seen = [p \in Procs |-> {}]
    /\ writers = {}

\* Direct calls of createNotifiedMarker(stateDir, tbsHash).
InitStore ==
    /\ stateDir \in StateDirs
    /\ tbsHash \in [Procs -> Fingerprints]
    /\ Ordered([p \in Procs |-> FpKey(tbsHash[p])])
    /\ input = [p \in Procs |-> "none"]
    /\ certDER = [p \in Procs |-> <<>>]
    /\ \E s \in Scenarios :
          fs = InitialFS(s, stateDir, {tbsHash[p] : p \in Procs}, tbsHash[1])
    /\ fs0 = fs
    /\ pc = [p \in Procs |-> "check"]
    /\ InitLocals

NextStore ==
    \E p \in Procs : CheckNotified(p) \/ MkdirAllStep(p) \/ WriteMarker(p)

SpecStore == InitStore /\ [][NextStore]_vars

(***************************************************************************)
(* main.                                                                   *)
(***************************************************************************)

\* "RSA PRIVATE KEY"
RSAPrivateKey == <<82, 83, 65, 32, 80, 82, 73, 86, 65, 84, 69, 32, 75, 69, 89>>

\* pem.EncodeToMemory for a body of at most one line (48 bytes).
Armor(label, der) ==
    Tail(pemStart) \o label \o pemEndOfLine \o <<10>>
    \o B64Encode(der) \o <<10>>
    \o Tail(pemEnd) \o label \o pemEndOfLine \o <<10>>

\* A certificate in DER: the TBSCertificate holds the serial number, the
\* signature is one byte.
TBSOf(serial) == <<48, 3, 2, 1, serial>>

CertDER(serial, signature) ==
    LET body == TBSOf(serial) \o <<48, 2, 5, 0>> \o <<3, 2, 0, signature>>
    IN  <<48, Len(body)>> \o body

CertA    == CertDER(1, 170)
PrecertA == CertDER(1, 187)   \* the TBSCertificate of CertA, another signature
CertB    == CertDER(2, 204)
KeyDER   == <<48, 3, 2, 1, 0>>

InputList ==
    <<"pemA", "derA", "derPrecertA", "pemKey", "pemAB", "pemAKey",
      "pemKeyA", "garbage", "unreadable">>

InputNames == {InputList[i] : i \in DOMAIN InputList}

InputKey(name) == CHOOSE i \in DOMAIN InputList : InputList[i] = name

\* The contents of the input files, in the order of InputList.
InputFiles ==
    <<Armor(Certificate, CertA),
      CertA,
      PrecertA,
      Armor(RSAPrivateKey, KeyDER),
      Armor(Certificate, CertA) \o Armor(Certificate, CertB),
      Armor(Certificate, CertA) \o Armor(RSAPrivateKey, KeyDER),
      Armor(RSAPrivateKey, KeyDER) \o Armor(Certificate, CertA),
      <<1, 2, 3>>,
      <<>>>>

\* The bytes readCertFile returns for a readable input.
InputBytes(name) == InputFiles[InputKey(name)]

\* readCertFile
readCertFile(name) ==
    IF name = "unreadable"
    THEN [bytes |-> <<>>, err |-> PathError("open", name, "ENOENT")]
    ELSE [bytes |-> InputBytes(name), err |-> NoError]

\* fmt.Fprintf(os.Stderr, ...); os.Exit(1)
Fail(p, err) ==
    /\ stderr' = [stderr EXCEPT ![p] = err]
    /\ exit' = [exit EXCEPT ![p] = 1]
    /\ pc' = [pc EXCEPT ![p] = "exited"]

\* Lines 158-168: readCertFile, then parseCertificate.
MainParse(p) ==
    /\ pc[p] = "parse"
    /\ LET file   == readCertFile(input[p])
           parsed == parseCertificate(file.bytes)
       IN  IF file.err # NoError
           THEN Fail(p, Wrap("error reading certificate", file.err)) /\ certDER' = certDER
           ELSE IF parsed.err # NoError
           THEN Fail(p, parsed.err) /\ certDER' = certDER
           ELSE /\ certDER' = [certDER EXCEPT ![p] = parsed.der]
                /\ pc' = [pc EXCEPT ![p] = "hash"]
                /\ UNCHANGED <<exit, stderr>>
    /\ UNCHANGED <<stateDir, fs, input, tbsHash, tbsDir, notifiedPath, mk, ret,
                   fs0, writes, seen, writers>>

\* Lines 170-174: computeTBSHash.
MainHash(p) ==
    /\ pc[p] = "hash"
    /\ LET h == computeTBSHash(certDER[p])
       IN  IF h.err # NoError
           THEN Fail(p, h.err) /\ tbsHash' = tbsHash
           ELSE /\ tbsHash' = [tbsHash EXCEPT ![p] = h.hash]
                /\ pc' = [pc EXCEPT ![p] = "check"]
                /\ UNCHANGED <<exit, stderr>>
    /\ UNCHANGED <<stateDir, fs, input, certDER, tbsDir, notifiedPath, mk, ret,
                   fs0, writes, seen, writers>>

\* Mutation: the error of createNotifiedMarker dropped.
MainExitIgnoring(p) ==
    /\ pc[p] = "returned"
    /\ exit' = [exit EXCEPT ![p] = 0]
    /\ pc' = [pc EXCEPT ![p] = "exited"]
    /\ UNCHANGED <<stateDir, fs, input, certDER, tbsHash, tbsDir, notifiedPath,
                   mk, ret, stderr, fs0, writes, seen, writers>>

\* Lines 176-183: the result of createNotifiedMarker decides the exit status.
MainExit(p) ==
    /\ pc[p] = "returned"
    /\ IF ret[p].err # NoError
       THEN Fail(p, ret[p].err)
       ELSE /\ exit' = [exit EXCEPT ![p] = 0]
            /\ pc' = [pc EXCEPT ![p] = "exited"]
            /\ stderr' = stderr
    /\ UNCHANGED <<stateDir, fs, input, certDER, tbsHash, tbsDir, notifiedPath,
                   mk, ret, fs0, writes, seen, writers>>

\* The fingerprints of the certificates among the inputs.
KnownHashes == {Sum256(TBSOf(1)), Sum256(TBSOf(2))}

MainStateDirs == {"/var/lib/certspotter"}

MainScenarios ==
    {"fresh", "marked_file", "certs_is_file", "certs_readonly", "shard_readonly"}

Init ==
    /\ stateDir \in MainStateDirs
    /\ input \in [Procs -> InputNames]
    /\ Ordered([p \in Procs |-> InputKey(input[p])])
    /\ certDER = [p \in Procs |-> <<>>]
    /\ tbsHash = [p \in Procs |-> <<>>]
    /\ \E s \in MainScenarios :
          fs = InitialFS(s, stateDir, KnownHashes, Sum256(TBSOf(1)))
    /\ fs0 = fs
    /\ pc = [p \in Procs |-> "parse"]
    /\ InitLocals

Next ==
    \E p \in Procs :
        \/ MainParse(p)
        \/ MainHash(p)
        \/ CheckNotified(p)
        \/ MkdirAllStep(p)
        \/ WriteMarker(p)
        \/ MainExit(p)

Spec == Init /\ [][Next]_vars

(***************************************************************************)
(* Vocabulary of the properties.                                           *)
(***************************************************************************)

\* The marker path the layout prescribes, written out independently of the
\* program: stateDir/certs/<2 hex>/.<64 hex>.notified, lowercase.
LowerHexDigit(n) ==
    CASE n = 0 -> "0" [] n = 1 -> "1" [] n = 2 -> "2" [] n = 3 -> "3"
      [] n = 4 -> "4" [] n = 5 -> "5" [] n = 6 -> "6" [] n = 7 -> "7"
      [] n = 8 -> "8" [] n = 9 -> "9" [] n = 10 -> "a" [] n = 11 -> "b"
      [] n = 12 -> "c" [] n = 13 -> "d" [] n = 14 -> "e" [] n = 15 -> "f"

LowerHexByte(b) == LowerHexDigit(b \div 16) \o LowerHexDigit(b % 16)

RECURSIVE LowerHex(_, _)
LowerHex(hash, i) ==
    IF i > Len(hash) THEN "" ELSE LowerHexByte(hash[i]) \o LowerHex(hash, i + 1)

ExpectedShard(sd, hash) == sd \o "/certs/" \o LowerHexByte(hash[1])

ExpectedPath(sd, hash) ==
    ExpectedShard(sd, hash) \o "/." \o LowerHex(hash, 1) \o ".notified"

WritesOf(w, x) == IF x \in DOMAIN w THEN w[x] ELSE 0

Success(p) == pc[p] \in {"returned", "exited"} /\ ret[p].err = NoError /\ ret[p].path # ""

\* No fault is present in a filesystem: every directory is writable and
\* the certs entry of the state directory, if any, is a directory.
NoFault(f) ==
    /\ \A x \in DOMAIN f : f[x].kind = "dir" => f[x].writable
    /\ \A x \in DOMAIN f : x = stateDir \o "/certs" => f[x].kind = "dir"

AllReturned == \A p \in Procs : pc[p] = "returned"

\* The filesystem every complete run must end in: the initial one, plus the
\* directories and the empty marker of each fingerprint whose marker path was
\* free.  It depends on the set of fingerprints only.
ExpectedFinal ==
    LET needed  == {tbsHash[p] : p \in Procs} \ {h \in {tbsHash[p] : p \in Procs} :
                       ExpectedPath(stateDir, h) \in DOMAIN fs0}
        dirs    == (IF needed = {} THEN {} ELSE {stateDir, stateDir \o "/certs"})
                   \cup {ExpectedShard(stateDir, h) : h \in needed}
        markers == {ExpectedPath(stateDir, h) : h \in needed}
    IN  [x \in DOMAIN fs0 \cup dirs \cup markers |->
            IF x \in DOMAIN fs0 THEN fs0[x]
            ELSE IF x \in markers THEN File(0) ELSE Dir(TRUE)]

(***************************************************************************)
(* Properties of the marker store, under SpecStore.                        *)
(***************************************************************************)

\* C1: a marker path that exists is never opened for writing, truncated,
\* replaced or removed by any later step of any invocation.
C1_MarkerNeverRewritten ==
    [][\A p \in Procs :
          LET x == ExpectedPath(stateDir, tbsHash[p])
          IN  x \in DOMAIN fs =>
                 /\ x \in DOMAIN fs'
                 /\ fs'[x] = fs[x]
                 /\ WritesOf(writes', x) = WritesOf(writes, x)]_vars

\* C2: without a filesystem fault every concurrent invocation returns
\* success with its own marker path, and when all have returned the
\* filesystem is the one determined by the set of fingerprints: one empty
\* marker per fingerprint, whatever the interleaving.
C2_ConcurrentSuccess ==
    NoFault(fs0) =>
       /\ \A p \in Procs :
             pc[p] = "returned" =>
                ret[p] = [path |-> ExpectedPath(stateDir, tbsHash[p]), err |-> NoError]
       /\ AllReturned =>
             /\ fs = ExpectedFinal
             /\ \A p \in Procs :
                   LET x == ExpectedPath(stateDir, tbsHash[p])
                   IN  x \in DOMAIN fs /\ (x \notin DOMAIN fs0 => fs[x] = File(0))

\* C2 witness: two invocations with the same fingerprint both passed the
\* existence check before the marker appeared, both wrote, both returned.
C2_Witness ==
    /\ NoFault(fs0)
    /\ AllReturned
    /\ \E p, q \in Procs :
          /\ p # q
          /\ tbsHash[p] = tbsHash[q]
          /\ {p, q} \subseteq writers
          /\ WritesOf(writes, ret[p].path) >= 2

\* C3: a call made after a call with the same arguments has returned gives
\* the same path without error, does not call os.WriteFile, and leaves the
\* marker empty; the file is written by the first call only.
C3_Idempotent ==
    NoFault(fs0) =>
       \A p, q \in Procs :
          (/\ p # q
           /\ tbsHash[p] = tbsHash[q]
           /\ p \in seen[q]
           /\ pc[q] = "returned")
          => LET x == ExpectedPath(stateDir, tbsHash[p])
                 same == {r \in Procs : tbsHash[r] = tbsHash[p] /\ pc[r] # "check"}
             IN  /\ ret[p] = [path |-> x, err |-> NoError]
                 /\ ret[q] = ret[p]
                 /\ q \notin writers
                 /\ x \in DOMAIN fs
                 /\ fs[x] = (IF x \in DOMAIN fs0 THEN fs0[x] ELSE File(0))
                 /\ same = {p, q} =>
                       WritesOf(writes, x) = (IF x \in DOMAIN fs0 THEN 0 ELSE 1)

\* C3 witness: the first call created the marker, the second call was made
\* after the first returned and has returned too.
C3_Witness ==
    /\ NoFault(fs0)
    /\ \E p, q \in Procs :
          /\ p # q
          /\ tbsHash[p] = tbsHash[q]
          /\ p \in seen[q]
          /\ pc[q] = "returned"
          /\ p \in writers
          /\ ret[p].path \notin DOMAIN fs0
          /\ WritesOf(writes, ret[p].path) = 1

\* C4: a successful call returns stateDir/certs/<first two lowercase hex
\* characters>/.<all 64 lowercase hex characters>.notified; every file the
\* component creates is at such a path and is empty.
C4_PathDerivation ==
    /\ \A p \in Procs :
          pc[p] = "returned" /\ ret[p].err = NoError =>
             /\ ret[p].path = ExpectedPath(stateDir, tbsHash[p])
             /\ ret[p].path \in DOMAIN fs
    /\ \A x \in DOMAIN fs \ DOMAIN fs0 :
          fs[x].kind # "dir" =>
             /\ fs[x] = File(0)
             /\ \E p \in writers : x = ExpectedPath(stateDir, tbsHash[p])
    /\ \A x \in DOMAIN writes : \E p \in writers : x = ExpectedPath(stateDir, tbsHash[p])

\* C4 witness: the markers of a fingerprint starting with 00 and of one
\* starting with ff have been created at their literal paths.
C4_Witness ==
    /\ stateDir = "/var/lib/certspotter"
    /\ \E p, q \in Procs :
          /\ p \in writers /\ q \in writers
          /\ pc[p] = "returned" /\ pc[q] = "returned"
          /\ ret[p].path = "/var/lib/certspotter/certs/00/.00abababababababababababababababababababababababababababababab01.notified"
          /\ ret[q].path = "/var/lib/certspotter/certs/ff/.ffabababababababababababababababababababababababababababababab01.notified"
          /\ fs[ret[p].path] = File(0)
          /\ fs[ret[q].path] = File(0)

\* C10: when an entry of any kind exists at the marker path at the time of
\* the existence check (symbolic links are not followed), the call returns
\* that path with success in that step and changes nothing in the filesystem.
C10_FastPath ==
    [][\A p \in Procs :
          LET x == ExpectedPath(stateDir, tbsHash[p])
          IN  (pc[p] = "check" /\ pc'[p] # "check" /\ x \in DOMAIN fs) =>
                 /\ pc'[p] = "returned"
                 /\ ret'[p] = [path |-> x, err |-> NoError]
                 /\ fs' = fs
                 /\ writes' = writes
                 /\ writers' = writers]_vars

\* C10 witness: a call has returned the path of a dangling symbolic link
\* that was there from the start, with the filesystem as it was.
C10_Witness ==
    \E p \in Procs :
       /\ pc[p] = "returned"
       /\ ret[p].path \in DOMAIN fs0
       /\ fs0[ret[p].path].kind = "symlink"
       /\ fs0[ret[p].path].target \notin DOMAIN fs0
       /\ ret[p].err = NoError
       /\ p \notin writers
       /\ fs = fs0

(***************************************************************************)
(* Properties of the whole program, under Spec.                            *)
(***************************************************************************)

Hashed(p) == Len(tbsHash[p]) = Size

\* The TBSCertificate range of a DER certificate of CertDER's shape, read
\* off its construction: the five bytes that follow the outer header.
TBSRange(der) == SubSeq(der, 3, 7)

\* C5: two inputs that parse and have byte-identical TBSCertificate ranges
\* get the same 32-byte fingerprint, also when their DER encodings differ,
\* and hence the same marker path.
C5_TBSOnly ==
    \A p, q \in Procs :
       (/\ Hashed(p) /\ Hashed(q)
        /\ TBSRange(certDER[p]) = TBSRange(certDER[q]))
       => /\ tbsHash[p] = tbsHash[q]
          /\ (notifiedPath[p] # "" /\ notifiedPath[q] # "") =>
                notifiedPath[p] = notifiedPath[q]

\* C5 witness: a certificate and its precertificate (same TBSCertificate,
\* different signature) have both been hashed and have reached the store.
C5_Witness ==
    \E p, q \in Procs :
       /\ input[p] = "derA" /\ input[q] = "derPrecertA"
       /\ certDER[p] # certDER[q]
       /\ Hashed(p) /\ Hashed(q)
       /\ notifiedPath[p] # "" /\ notifiedPath[q] # ""

\* The pairs of inputs of which the first is the second, PEM-armored as one
\* CERTIFICATE block.
ArmoredPairs ==
    UNION {IF InputBytes(pair[1]) = Armor(Certificate, InputBytes(pair[2]))
           THEN {pair} ELSE {} :
           pair \in (InputNames \ {"unreadable"}) \X (InputNames \ {"unreadable"})}

\* C6: a certificate given PEM-armored and the same certificate given as raw
\* DER end with the same fingerprint and the same marker path.
C6_PemDerEquivalent ==
    \A p, q \in Procs :
       (/\ <<input[p], input[q]>> \in ArmoredPairs
        /\ pc[p] = "exited" /\ pc[q] = "exited")
       => /\ certDER[p] = InputBytes(input[q])
          /\ Hashed(p) /\ Hashed(q)
          /\ tbsHash[p] = tbsHash[q]
          /\ notifiedPath[p] = notifiedPath[q]
          /\ NoFault(fs0) => (ret[p] = ret[q] /\ Success(p))

\* C6 witness: the PEM run and the DER run of one certificate have both
\* exited with success.
C6_Witness ==
    \E p, q \in Procs :
       /\ input[p] = "pemA" /\ input[q] = "derA"
       /\ pc[p] = "exited" /\ pc[q] = "exited"
       /\ exit[p] = 0 /\ exit[q] = 0
       /\ ret[p].path = ret[q].path /\ ret[p].path \in DOMAIN fs

\* The input starts with a PEM block of the given label.
StartsWithBlock(bytes, label) ==
    HasPrefix(bytes, Tail(pemStart) \o label \o pemEndOfLine \o <<10>>)

WrongLabelInputs ==
    UNION {IF StartsWithBlock(InputBytes(name), RSAPrivateKey) THEN {name} ELSE {} :
           name \in InputNames \ {"unreadable"}}

WrongLabel(p) == input[p] \in WrongLabelInputs

BlockCount(bytes) ==
    Cardinality({i \in 0..Len(bytes) : HasPrefix(From(bytes, i), pemStart)})
    + (IF HasPrefix(bytes, Tail(pemStart)) THEN 1 ELSE 0)

MultipleBlockInputs ==
    UNION {IF BlockCount(InputBytes(name)) > 1 THEN {name} ELSE {} :
           name \in InputNames \ {"unreadable"}}

\* C8: an input with more than one PEM block is rejected by parseCertificate
\* and no marker is created for it.
C8_MultipleBlocksRejected ==
    \A p \in Procs :
       input[p] \in MultipleBlockInputs =>
          /\ pc[p] \in {"parse", "exited"}
          /\ pc[p] = "exited" => exit[p] = 1
          /\ p \notin writers

\* What createNotifiedMarker must report in a filesystem with a fault, for
\* a marker path that is free.
ExpectedFailure(p) ==
    LET certs == stateDir \o "/certs"
        shard == ExpectedShard(stateDir, tbsHash[p])
        path  == ExpectedPath(stateDir, tbsHash[p])
    IN  IF certs \in DOMAIN fs0 /\ fs0[certs].kind = "file"
        THEN Wrap("error creating directory", PathError("mkdir", certs, "ENOTDIR"))
        ELSE IF certs \in DOMAIN fs0 /\ ~fs0[certs].writable /\ shard \notin DOMAIN fs0
        THEN Wrap("error creating directory", PathError("mkdir", shard, "EACCES"))
        ELSE IF shard \in DOMAIN fs0 /\ ~fs0[shard].writable /\ path \notin DOMAIN fs0
        THEN Wrap("error creating marker file", PathError("open", path, "EACCES"))
        ELSE NoError

\* C9: a failure to create the shard directory or the marker file is
\* returned as an error that carries the path and the cause, with an empty
\* path; it is never turned into success, the marker file is not attempted
\* after a failed directory creation, and main exits with status 1.
C9_FailuresSurfaced ==
    \A p \in Procs :
       /\ (Hashed(p) /\ pc[p] \in {"returned", "exited"}) =>
             /\ ret[p].err = ExpectedFailure(p)
             /\ ret[p].err # NoError =>
                   /\ ret[p].path = ""
                   /\ ret[p].err.err.path # ""
                   /\ ExpectedPath(stateDir, tbsHash[p]) \notin DOMAIN fs
                   /\ ret[p].err.msg = "error creating directory" => p \notin writers
       /\ (Hashed(p) /\ pc[p] = "exited") =>
             /\ stderr[p] = ret[p].err
             /\ exit[p] = (IF ret[p].err = NoError THEN 0 ELSE 1)

\* C9 witness: a run has exited with status 1 after os.MkdirAll failed on a
\* path component that is not a directory.
C9_Witness ==
    \E p \in Procs :
       /\ pc[p] = "exited"
       /\ exit[p] = 1
       /\ ret[p] = [path |-> "",
                    err |-> Wrap("error creating directory",
                                 PathError("mkdir", stateDir \o "/certs", "ENOTDIR"))]
       /\ stderr[p] = ret[p].err
       /\ p \notin writers

====
